---- MODULE Spec2Model ----
(***************************************************************************)
(* Model of student_processing.py: a batch script that reads student rows  *)
(* from a CSV file, computes per-student statistics and writes an          *)
(* augmented CSV file.                                                     *)
(*                                                                         *)
(* Two specifications:                                                     *)
(*   Spec      one run of the program (the __main__ block): open the       *)
(*             input, consume the header, read the data rows one by one,   *)
(*             then process and write.  The file's contents and the        *)
(*             environment's failures are drawn step by step.              *)
(*   SpecProc  one direct call of process_student_results on a list of     *)
(*             student dictionaries (fields possibly absent, scores over   *)
(*             the whole range 0..MaxScore).                               *)
(*                                                                         *)
(* A CSV field is a sequence of one-character strings, so that int() is    *)
(* modelled by what it parses.  Python's float average total / 3 is        *)
(* modelled as the exact fraction [num, den]; for the integer totals of    *)
(* the model the float comparisons against the integer thresholds agree    *)
(* with the exact ones (rounding is monotone and the thresholds are        *)
(* exactly representable).                                                 *)
(***************************************************************************)
EXTENDS Integers, Sequences, FiniteSets, TLC

\* pc             where the run (or the call) is
\* env            the exceptions the environment has raised so far
\* header         the row next(csv_reader) returned
\* rowsRead       the data rows the loop of the reader has been given
\* data           the list read_student_data builds
\* returned       read_student_data has returned
\* log            the messages printed
\* outFile        the output file on disk
\* exitCode       the exit status of the process
\* fatal          the fatal condition that ended the run
\* students_data  the list process_student_results is given
\* results        the list process_student_results returned
\* raised         process_student_results raised
VARIABLES pc, env, header, rowsRead, data, returned, log, outFile, exitCode,
          fatal, students_data, results, raised

vars == <<pc, env, header, rowsRead, data, returned, log, outFile, exitCode,
          fatal, students_data, results, raised>>

(* ---------------------------- bounds ---------------------------------- *)

\* number of data rows a run reads at most
MaxRows == 3

\* length of the list handed to process_student_results at most
MaxStudents == 2

\* largest score drawn for a direct call of process_student_results
MaxScore == 100

(* ------------------------ values and inputs --------------------------- *)

\* Python's None (calculate_average's result when a key is missing)
None == [isNone |-> TRUE]

\* no file on disk under the output name
NoFile == [exists |-> FALSE]

\* exit status of a process that has not exited yet
Running == -1

Digits == {"0", "1", "2", "3", "4", "5", "6", "7", "8", "9"}

Whitespace == {" "}

DigitVal(c) ==
    CASE c = "0" -> 0 [] c = "1" -> 1 [] c = "2" -> 2 [] c = "3" -> 3
      [] c = "4" -> 4 [] c = "5" -> 5 [] c = "6" -> 6 [] c = "7" -> 7
      [] c = "8" -> 8 [] c = "9" -> 9

\* the name field of the data rows
NameAl == <<"A", "l">>

F90 == <<"9", "0">>
F40 == <<"4", "0">>
F50 == <<"5", "0">>
Fabc == <<"a", "b", "c">>

\* the rows a CSV file may hold (csv.reader yields each as a list of strings)
Rows ==
    { <<NameAl, F90, F90, F90>>,
      <<NameAl, F40, F40, F40>>,
      <<NameAl, F90, F40, F50>>,
      <<NameAl, Fabc, F90, F90>>,
      <<NameAl, F90, Fabc, F90>>,
      <<NameAl, F90, F90, Fabc>>,
      <<NameAl, <<" ", "7">>, <<"+", "5">>, <<"-", "3", " ">> >>,
      <<NameAl, <<"1", "_", "0">>, <<"0", "0", "7">>, F90>>,
      <<NameAl, <<"8", ".", "5">>, F90, F90>>,
      <<NameAl, <<>>, F90, F90>>,
      <<NameAl, F90, <<"9", " ", "0">>, F90>>,
      <<NameAl, F90, F90, <<"-">> >>,
      <<NameAl, F90, F40, F90, <<"x">> >>,
      <<NameAl, F90, F90, Fabc, <<"x">> >>,
      <<>>,
      <<NameAl>>,
      <<NameAl, F90, F40>>,
      <<NameAl, Fabc, F90>> }

\* the first row of the file: the usual header, or a data row of a file
\* that has no header
HeaderRows ==
    { << <<"n">>, <<"m">>, <<"s">>, <<"e">> >>,
      <<NameAl, F90, F90, F90>> }

(* --------------------- int(): lines 32 to 34 -------------------------- *)

RECURSIVE StripLeft(_)
StripLeft(s) ==
    IF s # <<>> /\ Head(s) \in Whitespace THEN StripLeft(Tail(s)) ELSE s

RECURSIVE StripRight(_)
StripRight(s) ==
    IF s # <<>> /\ s[Len(s)] \in Whitespace
    THEN StripRight(SubSeq(s, 1, Len(s) - 1))
    ELSE s

\* str.strip() as int() applies it to its argument
Strip(s) == StripRight(StripLeft(s))

\* the digit part of an integer literal: digits, with single underscores
\* allowed between two digits
IsDigitBody(s) ==
    /\ s # <<>>
    /\ \A i \in 1..Len(s) : s[i] \in Digits \cup {"_"}
    /\ s[1] \in Digits
    /\ s[Len(s)] \in Digits
    /\ \A i \in 1..(Len(s) - 1) : ~(s[i] = "_" /\ s[i + 1] = "_")

RECURSIVE DigitsValue(_, _)
DigitsValue(s, acc) ==
    IF s = <<>> THEN acc
    ELSE IF Head(s) = "_" THEN DigitsValue(Tail(s), acc)
    ELSE DigitsValue(Tail(s), 10 * acc + DigitVal(Head(s)))

\* int(field): ok = FALSE stands for the ValueError
ParseInt(field) ==
    LET t == Strip(field)
        signed == t # <<>> /\ Head(t) \in {"+", "-"}
        body == IF signed THEN Tail(t) ELSE t
    IN  IF IsDigitBody(body)
        THEN [ok |-> TRUE,
              val |-> IF signed /\ Head(t) = "-"
                      THEN 0 - DigitsValue(body, 0)
                      ELSE DigitsValue(body, 0)]
        ELSE [ok |-> FALSE, val |-> 0]

(* ------------------- the statistics: lines 56 to 162 ------------------ *)

ScoreKeys == {"math", "science", "english"}

\* calculate_average: total / 3 as the fraction num / den, None on KeyError
calculate_average(student) ==
    IF ScoreKeys \subseteq DOMAIN student
    THEN [isNone |-> FALSE,
          num |-> student["math"] + student["science"] + student["english"],
          den |-> 3]
    ELSE None

\* score >= k for a fraction score and an integer k
AtLeast(score, k) == score.num >= k * score.den

\* assign_grade with exclusive lower bounds (> where the code has >=)
assign_grade_exclusive(score) ==
    IF score.num > 90 * score.den THEN "A"
    ELSE IF score.num > 80 * score.den THEN "B"
    ELSE IF score.num > 70 * score.den THEN "C"
    ELSE IF score.num > 60 * score.den THEN "D"
    ELSE IF score.num > 50 * score.den THEN "E"
    ELSE "F"

assign_grade(score) ==
    IF AtLeast(score, 90) THEN "A"
    ELSE IF AtLeast(score, 80) THEN "B"
    ELSE IF AtLeast(score, 70) THEN "C"
    ELSE IF AtLeast(score, 60) THEN "D"
    ELSE IF AtLeast(score, 50) THEN "E"
    ELSE "F"

\* Python's min() and max() over a non-empty list
Min(seq) == CHOOSE x \in {seq[i] : i \in 1..Len(seq)} :
                \A j \in 1..Len(seq) : x <= seq[j]

Max(seq) == CHOOSE x \in {seq[i] : i \in 1..Len(seq)} :
                \A j \in 1..Len(seq) : x >= seq[j]

\* calculate_min_max_range that leaves the last score out of the minimum
calculate_min_max_range_two(student_scores) ==
    LET min_score == Min(SubSeq(student_scores, 1, 2))
        max_score == Max(student_scores)
    IN  [min_score |-> min_score,
         max_score |-> max_score,
         score_range |-> max_score - min_score]

calculate_min_max_range(student_scores) ==
    LET min_score == Min(student_scores)
        max_score == Max(student_scores)
    IN  [min_score |-> min_score,
         max_score |-> max_score,
         score_range |-> max_score - min_score]

PassMessage == "Congratulations, you passed!"

FailMessage == "Fail"

\* pass_fail that fails the boundary average 50 (> where the code has >=)
pass_fail_exclusive(average) ==
    IF average.num > 50 * average.den THEN PassMessage ELSE FailMessage

\* line 145
pass_fail(average) == IF AtLeast(average, 50) THEN PassMessage ELSE FailMessage

\* the body of the loop of process_student_results for one student:
\*   kind "KeyError" the subscript of line 133 (or of line 149) raises,
\*   kind "omit"     calculate_average returned None,
\*   kind "result"   the dictionary of lines 148 to 159
ProcessStudent(student) ==
    IF ~(ScoreKeys \subseteq DOMAIN student)
    THEN [kind |-> "KeyError"]
    ELSE LET student_scores ==
                 <<student["math"], student["science"], student["english"]>>
             average == calculate_average(student)
             mmr == calculate_min_max_range(student_scores)
         IN  IF average.isNone THEN [kind |-> "omit"]
             ELSE IF "name" \notin DOMAIN student THEN [kind |-> "KeyError"]
             ELSE [kind |-> "result",
                   result |-> [name |-> student["name"],
                               math |-> student["math"],
                               science |-> student["science"],
                               english |-> student["english"],
                               average |-> average,
                               grade |-> assign_grade(average),
                               min_score |-> mmr.min_score,
                               max_score |-> mmr.max_score,
                               score_range |-> mmr.score_range,
                               pass_fail |-> pass_fail(average)]]

\* the loop of process_student_results from student i on, acc the results
\* so far; an exception leaves the caller without a list
RECURSIVE ProcessFrom(_, _, _)
ProcessFrom(students, i, acc) ==
    IF i > Len(students) THEN [raised |-> FALSE, results |-> acc]
    ELSE LET r == ProcessStudent(students[i])
         IN  IF r.kind = "KeyError" THEN [raised |-> TRUE, results |-> <<>>]
             ELSE IF r.kind = "omit" THEN ProcessFrom(students, i + 1, acc)
             ELSE ProcessFrom(students, i + 1, Append(acc, r.result))

process_student_results(students) == ProcessFrom(students, 1, <<>>)

(* ---------------------- the writer: lines 165 to 185 ------------------ *)

OutHeader == <<"name", "math", "science", "english", "average", "grade",
               "min_score", "max_score", "score_range", "pass_fail">>

\* DictWriter.writerow: the values of the dictionary in the header's order
OutRow(result) == [i \in 1..Len(OutHeader) |-> result[OutHeader[i]]]

\* the first n rows of a file's content (all of it when it has fewer)
Prefix(content, n) ==
    SubSeq(content, 1, IF n < Len(content) THEN n ELSE Len(content))

\* the rows of the file after writeheader() and writerows(results)
OutContent(res) == <<OutHeader>> \o [i \in 1..Len(res) |-> OutRow(res[i])]

(* ---------------------- the reader: lines 4 to 53 --------------------- *)

\* what open(filename, 'r') can do: succeed, raise FileNotFoundError, or
\* raise another exception (PermissionError, IsADirectoryError, ...)
OpenOutcomes == {"ok", "FileNotFoundError", "OtherError"}

\* the handlers of lines 42 to 51: the fatal condition, its messages and
\* the status handed to sys.exit
OpenStep(outcome) ==
    IF outcome = "ok"
    THEN [exit |-> FALSE, code |-> Running, fatal |-> "None", msgs |-> <<>>]
    ELSE IF outcome = "FileNotFoundError"
    THEN [exit |-> TRUE, code |-> 1, fatal |-> "FileNotFound",
          msgs |-> <<"Error: not found.", "Goodbye!">>]
    ELSE [exit |-> TRUE, code |-> 1, fatal |-> "UnexpectedIO",
          msgs |-> <<"An unexpected error occurred", "Goodbye!">>]

\* next(csv_reader, None): the end of the file is no error
HeaderStepDefault(atEOF) ==
    [exit |-> FALSE, code |-> Running, fatal |-> "None", msgs |-> <<>>]

\* header = next(csv_reader), line 20: at the end of the file next() raises
\* StopIteration, an Exception, which the handler of line 47 catches
HeaderStep(atEOF) ==
    IF atEOF
    THEN [exit |-> TRUE, code |-> 1, fatal |-> "UnexpectedIO",
          msgs |-> <<"An unexpected error occurred", "Goodbye!">>]
    ELSE [exit |-> FALSE, code |-> Running, fatal |-> "None", msgs |-> <<>>]

\* the length test off by one
RowIsShortOffByOne(row) == Len(row) < 5

\* line 25
RowIsShort(row) == Len(row) < 4

\* the loop body with the ValueError handled like a short row: the row is
\* reported and skipped
ReaderStepSkipsInvalid(d, row) ==
    IF Len(row) < 4
    THEN [data |-> d, exit |-> FALSE, code |-> Running, fatal |-> "None",
          msgs |-> <<"Incomplete data in row">>]
    ELSE IF ParseInt(row[2]).ok /\ ParseInt(row[3]).ok /\ ParseInt(row[4]).ok
    THEN [data |-> Append(d, [name |-> row[1],
                              math |-> ParseInt(row[2]).val,
                              science |-> ParseInt(row[3]).val,
                              english |-> ParseInt(row[4]).val]),
          exit |-> FALSE, code |-> Running, fatal |-> "None", msgs |-> <<>>]
    ELSE [data |-> d, exit |-> FALSE, code |-> Running, fatal |-> "None",
          msgs |-> <<"Invalid data in row">>]

\* the loop body with the sys.exit(1) of line 40 missing: the fatal
\* condition is reported and the loop goes on
ReaderStepNoExit(d, row) ==
    IF Len(row) < 4
    THEN [data |-> d, exit |-> FALSE, code |-> Running, fatal |-> fatal,
          msgs |-> <<"Incomplete data in row">>]
    ELSE IF ParseInt(row[2]).ok /\ ParseInt(row[3]).ok /\ ParseInt(row[4]).ok
    THEN [data |-> Append(d, [name |-> row[1],
                              math |-> ParseInt(row[2]).val,
                              science |-> ParseInt(row[3]).val,
                              english |-> ParseInt(row[4]).val]),
          exit |-> FALSE, code |-> Running, fatal |-> fatal, msgs |-> <<>>]
    ELSE [data |-> d, exit |-> FALSE, code |-> Running,
          fatal |-> "InvalidScore",
          msgs |-> <<"Invalid data in row",
                     "Only integer scores are allowed. Goodbye!">>]

\* the loop body with a short row ending the run like an invalid score
ReaderStepShortFatal(d, row) ==
    IF Len(row) < 4
    THEN [data |-> d, exit |-> TRUE, code |-> 1, fatal |-> "InvalidScore",
          msgs |-> <<"Incomplete data in row">>]
    ELSE IF ParseInt(row[2]).ok /\ ParseInt(row[3]).ok /\ ParseInt(row[4]).ok
    THEN [data |-> Append(d, [name |-> row[1],
                              math |-> ParseInt(row[2]).val,
                              science |-> ParseInt(row[3]).val,
                              english |-> ParseInt(row[4]).val]),
          exit |-> FALSE, code |-> Running, fatal |-> "None", msgs |-> <<>>]
    ELSE [data |-> d, exit |-> TRUE, code |-> 1, fatal |-> "InvalidScore",
          msgs |-> <<"Invalid data in row",
                     "Only integer scores are allowed. Goodbye!">>]

\* the body of the loop of lines 23 to 40 for one row, d the list so far
ReaderStep(d, row) ==
    IF RowIsShort(row)
    THEN [data |-> d, exit |-> FALSE, code |-> Running, fatal |-> "None",
          msgs |-> <<"Incomplete data in row">>]
    ELSE LET math == ParseInt(row[2])
             science == ParseInt(row[3])
             english == ParseInt(row[4])
         IN  IF math.ok /\ science.ok /\ english.ok
             THEN [data |-> Append(d, [name |-> row[1],
                                       math |-> math.val,
                                       science |-> science.val,
                                       english |-> english.val]),
                   exit |-> FALSE, code |-> Running, fatal |-> "None",
                   msgs |-> <<>>]
             ELSE [data |-> d, exit |-> TRUE, code |-> 1,
                   fatal |-> "InvalidScore",
                   msgs |-> <<"Invalid data in row",
                              "Only integer scores are allowed. Goodbye!">>]

(* ------------------- the entry point: lines 188 to 199 ---------------- *)

\* what open(filename, 'w') and the writes can do: succeed, fail to open,
\* or fail after the file was created
WriteOutcomes == {"ok", "OpenFails", "WriteFails"}

\* the entry point after read_student_data returned students: the guard of
\* line 193, process_student_results, write_results_to_csv, "Goodbye!".
\* An exception nothing catches ends the interpreter with status 1.
MainStep(students, outcome, file, keep) ==
    IF students = <<>>
    THEN [results |-> <<>>, outFile |-> file, code |-> 0, fatal |-> "None",
          env |-> {}, msgs |-> <<"Goodbye!">>]
    ELSE LET p == process_student_results(students)
         IN  IF p.raised
             THEN [results |-> <<>>, outFile |-> file, code |-> 1,
                   fatal |-> "Uncaught", env |-> {}, msgs |-> <<>>]
             ELSE IF p.results = <<>>
             THEN [results |-> p.results, outFile |-> file, code |-> 0,
                   fatal |-> "None", env |-> {},
                   msgs |-> <<"No results to write.", "Goodbye!">>]
             ELSE IF outcome = "ok"
             THEN [results |-> p.results,
                   outFile |-> [exists |-> TRUE,
                                rows |-> OutContent(p.results)],
                   code |-> 0, fatal |-> "None", env |-> {},
                   msgs |-> <<"Results written", "Goodbye!">>]
             ELSE IF outcome = "OpenFails"
             THEN [results |-> p.results, outFile |-> file, code |-> 1,
                   fatal |-> "UnexpectedIO", env |-> {outcome},
                   msgs |-> <<>>]
             ELSE [results |-> p.results,
                   outFile |-> [exists |-> TRUE,
                                rows |-> Prefix(OutContent(p.results), keep)],
                   code |-> 1, fatal |-> "UnexpectedIO", env |-> {outcome},
                   msgs |-> <<>>]

(* ------------------------------ one run ------------------------------- *)

Init ==
    /\ pc = "open"
    /\ env = {}
    /\ header = <<>>
    /\ rowsRead = <<>>
    /\ data = <<>>
    /\ returned = FALSE
    /\ log = <<>>
    /\ outFile = NoFile
    /\ exitCode = Running
    /\ fatal = "None"
    /\ students_data = <<>>
    /\ results = <<>>
    /\ raised = FALSE

\* with open(filename, 'r', encoding='utf-8') as file, line 18
OpenInput ==
    /\ pc = "open"
    /\ \E outcome \in OpenOutcomes :
          LET st == OpenStep(outcome)
          IN  /\ pc' = IF st.exit THEN "exited" ELSE "header"
              /\ exitCode' = st.code
              /\ fatal' = st.fatal
              /\ log' = log \o st.msgs
              /\ env' = IF outcome = "ok" THEN env ELSE env \cup {outcome}
    /\ UNCHANGED <<header, rowsRead, data, returned, outFile, students_data,
                   results, raised>>

\* header = next(csv_reader), line 20, on a file that has a first row
ReadHeader ==
    /\ pc = "header"
    /\ \E row \in HeaderRows :
          LET st == HeaderStep(FALSE)
          IN  /\ header' = row
              /\ pc' = IF st.exit THEN "exited" ELSE "rows"
              /\ exitCode' = st.code
              /\ fatal' = st.fatal
              /\ log' = log \o st.msgs
    /\ UNCHANGED <<env, rowsRead, data, returned, outFile, students_data,
                   results, raised>>

\* header = next(csv_reader), line 20, on a file that has no row at all
ReadHeaderEmptyFile ==
    /\ pc = "header"
    /\ LET st == HeaderStep(TRUE)
       IN  /\ pc' = IF st.exit THEN "exited" ELSE "rows"
           /\ exitCode' = st.code
           /\ fatal' = st.fatal
           /\ log' = log \o st.msgs
    /\ env' = env \cup {"StopIteration"}
    /\ UNCHANGED <<header, rowsRead, data, returned, outFile, students_data,
                   results, raised>>

\* one iteration of the loop of line 23
ReadRow ==
    /\ pc = "rows"
    /\ Len(rowsRead) < MaxRows
    /\ \E row \in Rows :
          LET st == ReaderStep(data, row)
          IN  /\ rowsRead' = Append(rowsRead, row)
              /\ data' = st.data
              /\ pc' = IF st.exit THEN "exited" ELSE "rows"
              /\ exitCode' = st.code
              /\ fatal' = st.fatal
              /\ log' = log \o st.msgs
    /\ UNCHANGED <<env, header, returned, outFile, students_data, results,
                   raised>>

\* the iteration of the file raises while the rows are read (a decoding
\* error, csv.Error, an I/O error): the handler of line 47
ReadRowError ==
    /\ pc = "rows"
    /\ LET st == OpenStep("OtherError")
       IN  /\ pc' = "exited"
           /\ exitCode' = st.code
           /\ fatal' = st.fatal
           /\ log' = log \o st.msgs
    /\ env' = env \cup {"ReadError"}
    /\ UNCHANGED <<header, rowsRead, data, returned, outFile, students_data,
                   results, raised>>

\* the loop ends at the end of the file and read_student_data returns data
EndOfRows ==
    /\ pc = "rows"
    /\ pc' = "main"
    /\ returned' = TRUE
    /\ students_data' = data
    /\ UNCHANGED <<env, header, rowsRead, data, log, outFile, exitCode,
                   fatal, results, raised>>

\* lines 193 to 199
Main ==
    /\ pc = "main"
    /\ \E outcome \in WriteOutcomes, keep \in 0..MaxRows :
          LET st == MainStep(students_data, outcome, outFile, keep)
          IN  /\ results' = st.results
              /\ outFile' = st.outFile
              /\ exitCode' = st.code
              /\ fatal' = st.fatal
              /\ log' = log \o st.msgs
              /\ env' = env \cup st.env
    /\ pc' = "exited"
    /\ UNCHANGED <<header, rowsRead, data, returned, students_data, raised>>

Next ==
    \/ OpenInput
    \/ ReadHeader
    \/ ReadHeaderEmptyFile
    \/ ReadRow
    \/ ReadRowError
    \/ EndOfRows
    \/ Main

Spec == Init /\ [][Next]_vars

(* ------------- a direct call of process_student_results --------------- *)

Keys == {"name"} \cup ScoreKeys

\* the scores of the dictionaries of a list of several students
ListScores == {50, 89}

\* the student dictionaries of a list: any of the four keys may be absent
StudentDicts ==
    { [k \in S \cup (IF hasName THEN {"name"} ELSE {}) |->
          IF k = "name" THEN NameAl ELSE sc[k]] :
      <<S, sc, hasName>> \in
          UNION { {S} \X [S -> ListScores] \X BOOLEAN : S \in SUBSET ScoreKeys }
    }

RECURSIVE ListsUpTo(_)
ListsUpTo(n) ==
    IF n = 0 THEN {<<>>}
    ELSE LET shorter == ListsUpTo(n - 1)
         IN  shorter \cup
             { Append(l, d) : <<l, d>> \in
                   {l \in shorter : Len(l) = n - 1} \X StudentDicts }

\* the caller's side of a call of process_student_results(students)
CallStep(students) ==
    LET p == process_student_results(students)
    IN  [pc |-> IF p.raised THEN "raised" ELSE "returned",
         raised |-> p.raised,
         results |-> p.results]

InitProc ==
    /\ pc = "call"
    /\ env = {}
    /\ header = <<>>
    /\ rowsRead = <<>>
    /\ data = <<>>
    /\ returned = FALSE
    /\ log = <<>>
    /\ outFile = NoFile
    /\ exitCode = Running
    /\ fatal = "None"
    /\ students_data = <<>>
    /\ results = <<>>
    /\ raised = FALSE

\* process_student_results on a list of dictionaries
CallProcess ==
    /\ pc = "call"
    /\ \E students \in ListsUpTo(MaxStudents) :
          LET st == CallStep(students)
          IN  /\ students_data' = students
              /\ pc' = st.pc
              /\ raised' = st.raised
              /\ results' = st.results
    /\ UNCHANGED <<env, header, rowsRead, data, returned, log, outFile,
                   exitCode, fatal>>

\* process_student_results on one complete Record, its scores over the
\* whole range
CallProcessRecord ==
    /\ pc = "call"
    /\ \E m \in 0..MaxScore, s \in 0..MaxScore, e \in 0..MaxScore :
          LET students == << [name |-> NameAl, math |-> m, science |-> s,
                              english |-> e] >>
              st == CallStep(students)
          IN  /\ students_data' = students
              /\ pc' = st.pc
              /\ raised' = st.raised
              /\ results' = st.results
    /\ UNCHANGED <<env, header, rowsRead, data, returned, log, outFile,
                   exitCode, fatal>>

NextProc ==
    \/ CallProcess
    \/ CallProcessRecord

SpecProc == InitProc /\ [][NextProc]_vars

(* ------------------------------ claims -------------------------------- *)

\* the fields of Rows that are not integer literals
NonIntegerFields ==
    { Fabc, <<"8", ".", "5">>, <<>>, <<"9", " ", "0">>, <<"-">>, <<"x">> }

\* a row with at least 4 fields and a non-integer value in a score field
BadScoreRow(row) ==
    Len(row) >= 4 /\ \E j \in 2..4 : row[j] \in NonIntegerFields

\* the value of the integer literals of Rows
IntegerValue(field) ==
    CASE field = F90 -> 90
      [] field = F40 -> 40
      [] field = F50 -> 50
      [] field = <<" ", "7">> -> 7
      [] field = <<"+", "5">> -> 5
      [] field = <<"-", "3", " ">> -> 0 - 3
      [] field = <<"1", "_", "0">> -> 10
      [] field = <<"0", "0", "7">> -> 7

\* the Records of the rows with at least 4 fields, in input order
RECURSIVE ExpectedRecords(_)
ExpectedRecords(rows) ==
    IF rows = <<>> THEN <<>>
    ELSE LET row == rows[Len(rows)]
             front == ExpectedRecords(SubSeq(rows, 1, Len(rows) - 1))
         IN  IF Len(row) >= 4
             THEN Append(front, [name |-> row[1],
                                 math |-> IntegerValue(row[2]),
                                 science |-> IntegerValue(row[3]),
                                 english |-> IntegerValue(row[4])])
             ELSE front

\* how many of the messages printed are m
Count(messages, m) == Cardinality({i \in 1..Len(messages) : messages[i] = m})

\* C1: a row with at least 4 fields and a non-integer score ends the run at
\* that row with exit status 1: it is the last row read, no list of Records
\* is returned and nothing is written, whatever rows came before it.
C1_NonIntegerScoreIsFatal ==
    \A i \in 1..Len(rowsRead) :
        BadScoreRow(rowsRead[i]) =>
            /\ i = Len(rowsRead)
            /\ pc = "exited"
            /\ exitCode = 1
            /\ fatal = "InvalidScore"
            /\ ~returned
            /\ outFile = NoFile

\* a non-integer score in the third row, after a valid and a short row
C1_Witness ==
    /\ Len(rowsRead) = 3
    /\ Len(rowsRead[1]) >= 4 /\ ~BadScoreRow(rowsRead[1])
    /\ Len(rowsRead[2]) < 4
    /\ BadScoreRow(rowsRead[3])
    /\ Len(data) = 1
    /\ pc = "exited"
    /\ exitCode = 1

\* C2: the output file exists only in runs whose reader returned, and once
\* a fatal condition has occurred the output file is never touched.
C2_NoWriteAfterFatal ==
    /\ [](outFile # NoFile => returned)
    /\ [][fatal # "None" => outFile' = outFile]_vars

\* a fatal condition after Records had been accepted, nothing written
C2_Witness ==
    /\ pc = "exited"
    /\ fatal \in {"InvalidScore", "UnexpectedIO"}
    /\ ~returned
    /\ Len(data) >= 2
    /\ outFile = NoFile

\* C3: a short row is reported and skipped; the list the reader returns is
\* exactly the rows with at least 4 fields, in input order, and in a run
\* without a fatal condition each of them has its Result and its output row.
C3_ShortRowsSkipped ==
    /\ Count(log, "Incomplete data in row")
           = Cardinality({i \in 1..Len(rowsRead) : Len(rowsRead[i]) < 4})
    /\ returned => students_data = ExpectedRecords(rowsRead)
    /\ (pc = "exited" /\ fatal = "None") =>
           /\ returned
           /\ students_data # <<>> =>
                  /\ Len(results) = Len(students_data)
                  /\ outFile # NoFile
                  /\ Len(outFile.rows) = Len(students_data) + 1
                  /\ \A i \in 1..Len(students_data) :
                         /\ results[i].name = students_data[i].name
                         /\ results[i].math = students_data[i].math
                         /\ results[i].science = students_data[i].science
                         /\ results[i].english = students_data[i].english
                         /\ outFile.rows[i + 1] = OutRow(results[i])
                         /\ outFile.rows[i + 1][1] = students_data[i].name
                         /\ outFile.rows[i + 1][2] = students_data[i].math
                         /\ outFile.rows[i + 1][3] = students_data[i].science
                         /\ outFile.rows[i + 1][4] = students_data[i].english

\* a short row between two valid rows, both written
C3_Witness ==
    /\ pc = "exited"
    /\ fatal = "None"
    /\ Len(rowsRead) = 3
    /\ Len(rowsRead[1]) >= 4
    /\ Len(rowsRead[2]) = 3
    /\ Len(rowsRead[3]) >= 4
    /\ outFile # NoFile
    /\ Len(outFile.rows) = 3

\* a fatal condition: a missing input file, a non-integer score, or an
\* unexpected error of the input or the output
FatalCondition ==
    \/ env # {}
    \/ \E i \in 1..Len(rowsRead) : BadScoreRow(rowsRead[i])

C8_NoResultsDiagnostic ==
    (pc = "exited" /\ ~FatalCondition /\ results = <<>>) =>
        /\ outFile = NoFile
        /\ Count(log, "No results to write.") >= 1

\* C10: a file without any row ends the run at the header with exit status
\* 1, nothing returned and nothing written; otherwise the first row is
\* taken as the header, whatever it holds, and is no data row.
C10_EmptyFileIsFatal ==
    /\ "StopIteration" \in env =>
           /\ pc = "exited"
           /\ exitCode = 1
           /\ fatal = "UnexpectedIO"
           /\ ~returned
           /\ rowsRead = <<>>
           /\ outFile = NoFile
    /\ pc \in {"rows", "main"} => header \in HeaderRows
    /\ Len(data) <= Len(rowsRead)

\* the run of a file without any row has ended
C10_Witness ==
    /\ "StopIteration" \in env
    /\ pc = "exited"
    /\ exitCode = 1
    /\ log = <<"An unexpected error occurred", "Goodbye!">>

\* a student dictionary with its name and its three scores
Complete(student) == DOMAIN student = Keys

\* C5: the average of a Record with scores in [0,100] is the mean of its
\* three scores and its grade follows the table of inclusive lower bounds.
C5_AverageAndGrade ==
    (pc = "returned" /\ \A i \in 1..Len(students_data) :
                            Complete(students_data[i])) =>
        /\ Len(results) = Len(students_data)
        /\ \A i \in 1..Len(results) :
              LET st == students_data[i]
                  total == st.math + st.science + st.english
                  avg == results[i].average
                  g == results[i].grade
              IN  /\ avg.den > 0
                  /\ avg.num * 3 = total * avg.den
                  /\ (g = "A") <=> (total >= 270)
                  /\ (g = "B") <=> (240 <= total /\ total < 270)
                  /\ (g = "C") <=> (210 <= total /\ total < 240)
                  /\ (g = "D") <=> (180 <= total /\ total < 210)
                  /\ (g = "E") <=> (150 <= total /\ total < 180)
                  /\ (g = "F") <=> (total < 150)

\* the scores (89, 90, 91): the boundary average 90 is graded A
C5_Witness ==
    /\ pc = "returned"
    /\ Len(results) = 1
    /\ students_data[1].math = 89
    /\ students_data[1].science = 90
    /\ students_data[1].english = 91
    /\ results[1].grade = "A"

\* C6: pass_fail is the success message exactly when the average is at
\* least 50, and "Fail" otherwise.
C6_PassFail ==
    pc = "returned" =>
        \A i \in 1..Len(results) :
            LET total == results[i].math + results[i].science
                             + results[i].english
            IN  /\ (results[i].pass_fail = "Congratulations, you passed!")
                       <=> (total >= 150)
                /\ (results[i].pass_fail = "Fail") <=> (total < 150)

\* the boundary average 50 passes
C6_Witness ==
    /\ pc = "returned"
    /\ Len(results) = 1
    /\ results[1].math = 49
    /\ results[1].science = 50
    /\ results[1].english = 51
    /\ results[1].pass_fail = "Congratulations, you passed!"

\* C7: min_score and max_score are the smallest and the largest of the
\* three raw scores and score_range is their difference; (70, 85, 60) gives
\* 60, 85 and 25.
C7_MinMaxRange ==
    pc = "returned" =>
        \A i \in 1..Len(results) :
            LET r == results[i]
                scores == {r.math, r.science, r.english}
            IN  /\ r.min_score \in scores
                /\ r.max_score \in scores
                /\ \A x \in scores : r.min_score <= x /\ x <= r.max_score
                /\ r.score_range = r.max_score - r.min_score
                /\ r.score_range >= 0
                /\ (r.math = 70 /\ r.science = 85 /\ r.english = 60) =>
                       (r.min_score = 60 /\ r.max_score = 85
                            /\ r.score_range = 25)

\* the scores (70, 85, 60)
C7_Witness ==
    /\ pc = "returned"
    /\ Len(results) = 1
    /\ results[1].math = 70
    /\ results[1].science = 85
    /\ results[1].english = 60
    /\ results[1].score_range = 25

\* the Results of the complete Records of a list, in order
RECURSIVE ResultsOfComplete(_)
ResultsOfComplete(students) ==
    IF students = <<>> THEN <<>>
    ELSE LET st == students[Len(students)]
             front == ResultsOfComplete(SubSeq(students, 1, Len(students) - 1))
         IN  IF Complete(st) THEN Append(front, ProcessStudent(st).result)
             ELSE front

\* C9 as claimed: a Record without one of its score fields is left out of
\* the list returned, the call does not fail and the other Records have
\* their Results.
C9_MissingFieldOmitted ==
    (/\ pc \in {"returned", "raised"}
     /\ \A i \in 1..Len(students_data) : "name" \in DOMAIN students_data[i]
     /\ \E i \in 1..Len(students_data) :
            ~(ScoreKeys \subseteq DOMAIN students_data[i])) =>
        /\ ~raised
        /\ results = ResultsOfComplete(students_data)

====
